---- MODULE Spec2Model ----
(***************************************************************************)
(* Model of src/app.py: the tourism query orchestrator                     *)
(* (parent_tourism_agent), its two data-source helpers (get_weather,       *)
(* get_tourist_places) with retry, linear backoff and the process-wide     *)
(* circuit breaker CB_STATE, and the geocoding prerequisite.               *)
(*                                                                         *)
(* Time is counted in tenths of a second, so that the backoff of 0.7 s is  *)
(* the integer 7.  Every request is one call of parent_tourism_agent; the  *)
(* requests run as concurrent threads over the one shared CB_STATE.  A     *)
(* statement of the source that reads or writes CB_STATE is one step, so   *)
(* that `cb['failures'] += 1` is a read followed by a write.               *)
(*                                                                         *)
(* Spec is the program serving requests; LiveSpec adds its scheduling.     *)
(* WeatherSpec applies the payload reading of get_weather, and ParseSpec   *)
(* the intent classification of parse_user_query, to inputs drawn from     *)
(* bounded sets.                                                           *)
(***************************************************************************)
EXTENDS Integers, Sequences, FiniteSets, TLC

\* ---------------------------------------------------------------- bounds
\* No new request and no expiry of a breaker is awaited beyond MaxTime (tenths
\* of a second); a pending sleep or wait always ends.
MaxTime == 400

\* Between requests the clock may advance by IdleStep; while a request is in
\* progress it advances to the next pending timer or breaker expiry.
IdleStep == 100

\* The requests: each is one call of parent_tourism_agent on a thread of its
\* own, started at any time.
Requests == {"r1", "r2"}

\* ----------------------------------------------------- program constants
Resources == {"weather", "places"}

attempts == 3
backoff == 7
CB_THRESHOLD == 3
CB_COOLDOWN == 300
WEATHER_TIMEOUT == 150
PLACES_TIMEOUT == 200

NOT_FOUND_MSG == "I don't think this place exists."
SORRY_MSG == "Sorry, I couldn't retrieve weather or places right now."
WEATHER_SECTION == "Weather in"
PLACES_SECTION == "Top attractions near"

\* Python's None, for the values that are strings.
None == "None"

\* The loop variable i of a helper before `for i in range(attempts)` binds it.
Unbound == -1

\* Outcomes of one attempt of the remote operation, by resource.
\*   weather: "ok"              a payload with a usable temperature
\*            "network_error"   requests.RequestException (connection, HTTP status)
\*            "timeout"         requests.Timeout, a RequestException
\*            "no_temperature"  a payload with no current.temperature_2m
\*            "bad_shape"       a payload on which .get or float() raises
\*                              (AttributeError, ValueError, TypeError)
\*   places:  "ok_names"        a payload with at least one named element
\*            "ok_empty"        a payload with no named element
\*            "network_error", "timeout"   as above
\*            "invalid_json"    ValueError or TypeError while decoding
\*            "bad_shape"       a payload on which .get raises AttributeError
WeatherOutcomes == {"ok", "network_error", "timeout", "no_temperature", "bad_shape"}
PlacesOutcomes == {"ok_names", "ok_empty", "network_error", "timeout", "invalid_json", "bad_shape"}

AttemptOutcomes(res) == IF res = "weather" THEN WeatherOutcomes ELSE PlacesOutcomes

\* The intent override argument of parent_tourism_agent.
IntentOverrides == {None, "weather", "places", "both", "PLACES "}

VARIABLES
    now,            \* time.time(), in tenths of a second
    CB_STATE,       \* [resource -> [failures, opened_until]]
    pc,             \* [request -> position of parent_tourism_agent]
    use_intent,     \* [request -> the intent the request routes on]
    coords,         \* [request -> "unset" | "none" | "ok"]
    weather_text,   \* [request -> None | the weather summary]
    places,         \* [request -> sequence of place names]
    response,       \* [request -> sequence of the sections of the returned string]
    deadline,       \* [request -> the time the current Future.result wait ends]
    fanout_start,   \* [request -> the time both calls were submitted]
    cpc,            \* [request -> [resource -> position of the helper call]]
    i,              \* [request -> [resource -> loop index of the helper call,
                    \*   Unbound until the loop is entered]]
    failures_read,  \* [request -> [resource -> the value read by `failures += 1`]]
    wake_at,        \* [request -> [resource -> the time time.sleep returns]]
    result,         \* [request -> [resource -> the value the call returns]]
    late,           \* [request -> [resource -> the call finished after its deadline,
                    \*   counted from fanout_start]]
    recorded,       \* [resource -> increments of the count (line 123 or 175)
                    \*   executed since its last reset (line 118 or 171)]
    last_failure_at,\* [resource -> the time of the last recorded failure]
    data,           \* the payload get_weather parses (lines 87-116)
    prob_str,       \* the precipitation text it derives from data, "unset" before
    user_input,     \* the text parse_user_query is given, a sequence of characters
    parsed_intent   \* the intent it derives from user_input, "unset" before

vars == <<now, CB_STATE, pc, use_intent, coords, weather_text, places, response,
          deadline, fanout_start, cpc, i, failures_read, wake_at, result, late,
          recorded, last_failure_at, data, prob_str, user_input, parsed_intent>>

mainVars == <<pc, use_intent, coords, weather_text, places, response, deadline, fanout_start>>
callVars == <<cpc, i, failures_read, wake_at, result, late>>
ghostVars == <<recorded, last_failure_at>>
pureVars == <<data, prob_str, user_input, parsed_intent>>

\* The value a call returns when it has nothing: None for weather, [] for places.
Absent(res) == IF res = "weather" THEN None ELSE <<>>

\* A call has finished: it returned ("done") or an exception left it ("raised").
Finished(r, res) == cpc[r][res] \in {"done", "raised"}

\* The optional numbers of a payload: <<>> for null (None), <<n>> for a number.
NoNumber == <<>>

\* The state of the process when the module has been loaded.
InitProgram ==
    /\ now = 0
    /\ CB_STATE = [res \in Resources |-> [failures |-> 0, opened_until |-> 0]]
    /\ pc = [r \in Requests |-> "idle"]
    /\ use_intent = [r \in Requests |-> None]
    /\ coords = [r \in Requests |-> "unset"]
    /\ weather_text = [r \in Requests |-> None]
    /\ places = [r \in Requests |-> <<>>]
    /\ response = [r \in Requests |-> <<>>]
    /\ deadline = [r \in Requests |-> 0]
    /\ fanout_start = [r \in Requests |-> 0]
    /\ cpc = [r \in Requests |-> [res \in Resources |-> "idle"]]
    /\ i = [r \in Requests |-> [res \in Resources |-> Unbound]]
    /\ failures_read = [r \in Requests |-> [res \in Resources |-> 0]]
    /\ wake_at = [r \in Requests |-> [res \in Resources |-> 0]]
    /\ result = [r \in Requests |-> [res \in Resources |-> Absent(res)]]
    /\ late = [r \in Requests |-> [res \in Resources |-> FALSE]]
    /\ recorded = [res \in Resources |-> 0]
    /\ last_failure_at = [res \in Resources |-> 0]

\* No payload and no text is being parsed on its own.
InitPure ==
    /\ data = [temp |-> NoNumber, current_time |-> "", times |-> <<>>, probs |-> <<>>]
    /\ prob_str = "unset"
    /\ user_input = <<>>
    /\ parsed_intent = "unset"

Init == InitProgram /\ InitPure


\* The per-path deadlines of the fan-out, lines 261 and 265.
Timeout(res) == IF res = "weather" THEN WEATHER_TIMEOUT ELSE PLACES_TIMEOUT

\* A helper submitted to the executor finishes: was that after its deadline,
\* counted from the start of the fan-out?
FinishedLate(r, res) ==
    /\ pc[r] \in {"wait_weather", "wait_places", "exit_with"}
    /\ now > fanout_start[r] + Timeout(res)

\* ------------------------------------------------------- circuit breaker
\* A helper that never consults its breaker.
BreakerOpenNever(res) == FALSE

\* The entry check of a helper: `now < cb['opened_until']`.
BreakerOpen(res) == now < CB_STATE[res].opened_until

\* A test that re-arms only when the count is exactly the threshold.
ThresholdMet(n) == n = CB_THRESHOLD

\* A test that re-arms only above the threshold.
ThresholdExceeded(n) == n > CB_THRESHOLD

\* The test that re-arms the breaker: `cb['failures'] >= 3`.
ThresholdReached(n) == n >= CB_THRESHOLD

\* A backoff that does not grow.
BackoffDelayFlat(k) == backoff

\* `backoff * (i + 1)`, the sleep after failed attempt number k + 1.
BackoffDelay(k) == backoff * (k + 1)

\* `if i < attempts - 1`: another attempt follows the failed one.
RetryFollows(k) == k < attempts - 1

\* -------------------------------------------------------- helper calls
\* get_weather and get_tourist_places share their control flow; they differ
\* in the exceptions they catch and in what they return.

\* Lines 66-69 and 138-141: read the clock and the breaker; return the absent
\* value if it is open, else enter the retry loop with i = 0.
CheckBreaker(r, res) ==
    /\ cpc[r][res] = "entry"
    /\ IF BreakerOpen(res)
       THEN /\ cpc' = [cpc EXCEPT ![r][res] = "done"]
            /\ result' = [result EXCEPT ![r][res] = Absent(res)]
            /\ late' = [late EXCEPT ![r][res] = FinishedLate(r, res)]
            /\ UNCHANGED i
       ELSE /\ cpc' = [cpc EXCEPT ![r][res] = "attempt"]
            /\ i' = [i EXCEPT ![r][res] = 0]
            /\ UNCHANGED <<result, late>>
    /\ UNCHANGED <<pureVars, now, CB_STATE, mainVars, failures_read, wake_at, ghostVars>>

\* What the try block of a helper does with an attempt's outcome:
\*   "success"  the lines after the parsing are reached (117-120, 170-173)
\*   "failure"  the except clause is entered (121-129, 174-181)
\*   "return"   `if temp is None: return None` (105-106)
\*   "raise"    an exception the except clause does not name leaves the helper
Handling(res, o) ==
    IF res = "weather"
    THEN CASE o = "ok" -> "success"
           [] o \in {"network_error", "timeout"} -> "failure"
           [] o = "no_temperature" -> "return"
           [] OTHER -> "raise"
    ELSE CASE o \in {"ok_names", "ok_empty"} -> "success"
           [] o \in {"network_error", "timeout", "invalid_json"} -> "failure"
           [] OTHER -> "raise"

\* The value a successful attempt returns.
Payload(res, o) ==
    IF res = "weather" THEN "24C with a chance of 35% to rain"
    ELSE IF o = "ok_names" THEN <<"Lalbagh">> ELSE <<>>

\* A reset that takes one failure off the count.
ResetCountByOne(n) == IF n > 0 THEN n - 1 ELSE 0

\* Lines 118 and 171: `cb['failures'] = 0`, whatever the count n was.
ResetCount(n) == 0

\* Lines 84-118, 121-123 and 155-171, 174-175: one attempt of the remote
\* operation ends with outcome o, and the helper goes on to its first access
\* of the breaker: the reset of the count, or the read of `failures += 1`.
AttemptOutcome(r, res, o) ==
    /\ cpc[r][res] = "attempt"
    /\ LET h == Handling(res, o) IN
       CASE h = "success" ->
              \* line 118 or 171: cb['failures'] = 0
              /\ cpc' = [cpc EXCEPT ![r][res] = "reset_opened"]
              /\ result' = [result EXCEPT ![r][res] = Payload(res, o)]
              /\ CB_STATE' = [CB_STATE EXCEPT ![res].failures = ResetCount(@)]
              /\ recorded' = [recorded EXCEPT ![res] = 0]
              /\ UNCHANGED <<late, failures_read, last_failure_at>>
         [] h = "failure" ->
              \* line 123 or 175, first half of `cb['failures'] += 1`: the read
              /\ cpc' = [cpc EXCEPT ![r][res] = "fail_write"]
              /\ failures_read' = [failures_read EXCEPT ![r][res] = CB_STATE[res].failures]
              /\ UNCHANGED <<result, late, CB_STATE, ghostVars>>
         [] h = "return" ->
              /\ cpc' = [cpc EXCEPT ![r][res] = "done"]
              /\ result' = [result EXCEPT ![r][res] = Absent(res)]
              /\ late' = [late EXCEPT ![r][res] = FinishedLate(r, res)]
              /\ UNCHANGED <<CB_STATE, failures_read, ghostVars>>
         [] OTHER ->
              /\ cpc' = [cpc EXCEPT ![r][res] = "raised"]
              /\ late' = [late EXCEPT ![r][res] = FinishedLate(r, res)]
              /\ UNCHANGED <<result, CB_STATE, failures_read, ghostVars>>
    /\ UNCHANGED <<pureVars, now, mainVars, i, wake_at>>

\* Lines 119-120 and 172-173: cb['opened_until'] = 0.0; return the payload.
ResetOpened(r, res) ==
    /\ cpc[r][res] = "reset_opened"
    /\ CB_STATE' = [CB_STATE EXCEPT ![res].opened_until = 0]
    /\ cpc' = [cpc EXCEPT ![r][res] = "done"]
    /\ late' = [late EXCEPT ![r][res] = FinishedLate(r, res)]
    /\ UNCHANGED <<pureVars, now, mainVars, i, failures_read, wake_at, result, ghostVars>>

\* Lines 123 and 175, second half: store the count read plus one.
FailWrite(r, res) ==
    /\ cpc[r][res] = "fail_write"
    /\ CB_STATE' = [CB_STATE EXCEPT ![res].failures = failures_read[r][res] + 1]
    /\ cpc' = [cpc EXCEPT ![r][res] = "fail_check"]
    /\ failures_read' = [failures_read EXCEPT ![r][res] = 0]
    /\ recorded' = [recorded EXCEPT ![res] = @ + 1]
    /\ UNCHANGED <<pureVars, now, mainVars, i, wake_at, result, late, last_failure_at>>

\* Lines 126-129 and 178-181: sleep before the next attempt, or return the
\* absent value after the last one.
AfterFailure(r, res) ==
    IF RetryFollows(i[r][res])
    THEN /\ cpc' = [cpc EXCEPT ![r][res] = "sleep"]
         /\ wake_at' = [wake_at EXCEPT ![r][res] = now + BackoffDelay(i[r][res])]
         /\ UNCHANGED <<result, late>>
    ELSE /\ cpc' = [cpc EXCEPT ![r][res] = "done"]
         /\ result' = [result EXCEPT ![r][res] = Absent(res)]
         /\ late' = [late EXCEPT ![r][res] = FinishedLate(r, res)]
         /\ UNCHANGED wake_at

\* The time of the failure, as the handler reads it when it has updated the
\* breaker.
RecordFailure(res) ==
    /\ last_failure_at' = [last_failure_at EXCEPT ![res] = now]
    /\ UNCHANGED recorded

\* Lines 124 and 176: `if cb['failures'] >= 3`, a fresh read of the count.
FailCheck(r, res) ==
    /\ cpc[r][res] = "fail_check"
    /\ IF ThresholdReached(CB_STATE[res].failures)
       THEN /\ cpc' = [cpc EXCEPT ![r][res] = "fail_open"]
            /\ UNCHANGED <<wake_at, result, late, ghostVars>>
       ELSE /\ AfterFailure(r, res)
            /\ RecordFailure(res)
    /\ UNCHANGED <<pureVars, now, CB_STATE, mainVars, i, failures_read>>

\* Lines 125 and 177: cb['opened_until'] = time.time() + 30.0.
FailOpen(r, res) ==
    /\ cpc[r][res] = "fail_open"
    /\ CB_STATE' = [CB_STATE EXCEPT ![res].opened_until = now + CB_COOLDOWN]
    /\ AfterFailure(r, res)
    /\ RecordFailure(res)
    /\ UNCHANGED <<pureVars, now, mainVars, i, failures_read>>

\* Lines 127 and 179: time.sleep returns; the loop starts the next attempt.
Wake(r, res) ==
    /\ cpc[r][res] = "sleep"
    /\ now >= wake_at[r][res]
    /\ cpc' = [cpc EXCEPT ![r][res] = "attempt"]
    /\ i' = [i EXCEPT ![r][res] = @ + 1]
    /\ wake_at' = [wake_at EXCEPT ![r][res] = 0]
    /\ UNCHANGED <<pureVars, now, CB_STATE, mainVars, failures_read, result, late, ghostVars>>


\* ------------------------------------------------------- the orchestrator
\* A classifier that lets a places keyword decide.
ParseIntentPlacesFirst(has_weather, has_places) ==
    IF has_places THEN "places" ELSE IF has_weather THEN "weather" ELSE "both"

\* parse_user_query, lines 201-206: the intent from the two keyword tests.
ParseIntent(has_weather, has_places) ==
    IF has_weather /\ ~has_places THEN "weather"
    ELSE IF has_places /\ ~has_weather THEN "places"
    ELSE "both"

\* str.strip().lower() on the override values of the model.
StripLower(s) == IF s = "PLACES " THEN "places" ELSE s

\* Line 241: (intent or auto_intent or "both").strip().lower().
UseIntent(intent, auto_intent) ==
    StripLower(IF intent # None THEN intent ELSE auto_intent)

\* A router that fans out whatever the intent.
BranchBoth(intent) == "both"

\* Lines 252-256: the branch taken on use_intent.
Branch(intent) ==
    IF intent = "weather" THEN "weather"
    ELSE IF intent = "places" THEN "places"
    ELSE "both"

\* A compiler that answers only when it has both sections.
CompileResponseAllOrNothing(wt, pl) ==
    IF wt # None /\ pl # <<>> THEN <<WEATHER_SECTION, PLACES_SECTION>> ELSE <<SORRY_MSG>>

\* Lines 269-277: the sections of the response, in order, or the apology.
CompileResponse(wt, pl) ==
    LET parts == (IF wt # None THEN <<WEATHER_SECTION>> ELSE <<>>)
                 \o (IF pl # <<>> THEN <<PLACES_SECTION>> ELSE <<>>)
    IN IF parts = <<>> THEN <<SORRY_MSG>> ELSE parts

\* Outcomes of the geocoding request (get_coordinates, lines 42-57):
\*   "found"          a first match with lat and lon
\*   "no_match"       an empty list, or a match without lat or lon: None
\*   "network_error"  RequestException, ValueError or TypeError: None
\*   "bad_shape"      a first element that is no dict: AttributeError escapes
GeocodeOutcomes == {"found", "no_match", "network_error", "bad_shape"}

get_coordinates(g) ==
    CASE g = "found" -> "ok"
      [] g \in {"no_match", "network_error"} -> "none"
      [] OTHER -> "raise"

\* The runs of the model: one request that fans out, alone, or two
\* single-source requests (weather or places), overlapping or one after the
\* other. A request that fans out is never run beside another request.
Schedulable(r, branch) ==
    \A q \in Requests \ {r} :
        pc[q] = "idle" \/ (branch # "both" /\ Branch(use_intent[q]) # "both")

\* Lines 232-241: a request arrives; parse the text and fix the intent.
Start(r, intent, has_weather, has_places) ==
    /\ pc[r] = "idle"
    /\ Schedulable(r, Branch(UseIntent(intent, ParseIntent(has_weather, has_places))))
    /\ use_intent' = [use_intent EXCEPT ![r] = UseIntent(intent, ParseIntent(has_weather, has_places))]
    /\ pc' = [pc EXCEPT ![r] = "geocode"]
    /\ UNCHANGED <<pureVars, now, CB_STATE, coords, weather_text, places, response, deadline,
                   fanout_start, callVars, ghostVars>>

\* A missing test of the geocoding result.
NoCoordinatesNever(c) == FALSE

\* `if not coords`: line 244.
NoCoordinates(c) == c = "none"

\* Lines 243-259: geocode, then return the not-found message, or call the one
\* helper of the intent on this thread, or submit both helpers to the executor
\* and start waiting for the weather future.
Geocode(r, g) ==
    /\ pc[r] = "geocode"
    /\ LET c == get_coordinates(g) IN
       IF c = "raise"
       THEN /\ pc' = [pc EXCEPT ![r] = "raised"]
            /\ UNCHANGED <<coords, response, deadline, fanout_start, cpc>>
       ELSE /\ coords' = [coords EXCEPT ![r] = c]
            /\ IF NoCoordinates(c)
               THEN /\ response' = [response EXCEPT ![r] = <<NOT_FOUND_MSG>>]
                    /\ pc' = [pc EXCEPT ![r] = "returned"]
                    /\ UNCHANGED <<deadline, fanout_start, cpc>>
               ELSE /\ UNCHANGED response
                    /\ CASE Branch(use_intent[r]) = "weather" ->
                              /\ pc' = [pc EXCEPT ![r] = "sync_weather"]
                              /\ cpc' = [cpc EXCEPT ![r]["weather"] = "entry"]
                              /\ UNCHANGED <<deadline, fanout_start>>
                         [] Branch(use_intent[r]) = "places" ->
                              /\ pc' = [pc EXCEPT ![r] = "sync_places"]
                              /\ cpc' = [cpc EXCEPT ![r]["places"] = "entry"]
                              /\ UNCHANGED <<deadline, fanout_start>>
                         [] OTHER ->
                              /\ pc' = [pc EXCEPT ![r] = "wait_weather"]
                              /\ cpc' = [cpc EXCEPT ![r] = [res \in Resources |-> "entry"]]
                              /\ fanout_start' = [fanout_start EXCEPT ![r] = now]
                              /\ deadline' = [deadline EXCEPT ![r] = now + WEATHER_TIMEOUT]
    /\ UNCHANGED <<pureVars, now, CB_STATE, use_intent, weather_text, places, i, failures_read,
                   wake_at, result, late, ghostVars>>

\* Lines 253 and 269-277: get_weather returned on the calling thread (or an
\* exception left it, and leaves parent_tourism_agent too).
SyncWeatherReturn(r) ==
    /\ pc[r] = "sync_weather"
    /\ Finished(r, "weather")
    /\ IF cpc[r]["weather"] = "raised"
       THEN /\ pc' = [pc EXCEPT ![r] = "raised"]
            /\ UNCHANGED <<weather_text, response>>
       ELSE /\ weather_text' = [weather_text EXCEPT ![r] = result[r]["weather"]]
            /\ response' = [response EXCEPT ![r] = CompileResponse(result[r]["weather"], places[r])]
            /\ pc' = [pc EXCEPT ![r] = "returned"]
    /\ UNCHANGED <<pureVars, now, CB_STATE, use_intent, coords, places, deadline, fanout_start,
                   callVars, ghostVars>>

\* Lines 255 and 269-277: the same for get_tourist_places.
SyncPlacesReturn(r) ==
    /\ pc[r] = "sync_places"
    /\ Finished(r, "places")
    /\ IF cpc[r]["places"] = "raised"
       THEN /\ pc' = [pc EXCEPT ![r] = "raised"]
            /\ UNCHANGED <<places, response>>
       ELSE /\ places' = [places EXCEPT ![r] = result[r]["places"]]
            /\ response' = [response EXCEPT ![r] = CompileResponse(weather_text[r], result[r]["places"])]
            /\ pc' = [pc EXCEPT ![r] = "returned"]
    /\ UNCHANGED <<pureVars, now, CB_STATE, use_intent, coords, weather_text, deadline, fanout_start,
                   callVars, ghostVars>>

\* Lines 260-263, f_weather.result(timeout=15): the future has finished, so
\* its value is taken (None if the call raised); then the wait for the places
\* future starts, lines 264-265, with a timeout counted from this moment.
WeatherResult(r) ==
    /\ pc[r] = "wait_weather"
    /\ Finished(r, "weather")
    /\ weather_text' = [weather_text EXCEPT ![r] =
            IF cpc[r]["weather"] = "raised" THEN None ELSE result[r]["weather"]]
    /\ pc' = [pc EXCEPT ![r] = "wait_places"]
    /\ deadline' = [deadline EXCEPT ![r] = now + PLACES_TIMEOUT]
    /\ UNCHANGED <<pureVars, now, CB_STATE, use_intent, coords, places, response, fanout_start,
                   callVars, ghostVars>>

\* Lines 261-263: the wait timed out (TimeoutError, caught): weather is None.
WeatherTimeout(r) ==
    /\ pc[r] = "wait_weather"
    /\ ~Finished(r, "weather")
    /\ now >= deadline[r]
    /\ weather_text' = [weather_text EXCEPT ![r] = None]
    /\ pc' = [pc EXCEPT ![r] = "wait_places"]
    /\ deadline' = [deadline EXCEPT ![r] = now + PLACES_TIMEOUT]
    /\ UNCHANGED <<pureVars, now, CB_STATE, use_intent, coords, places, response, fanout_start,
                   callVars, ghostVars>>

\* Lines 264-267, f_places.result(timeout=20): the future has finished.
PlacesResult(r) ==
    /\ pc[r] = "wait_places"
    /\ Finished(r, "places")
    /\ places' = [places EXCEPT ![r] =
            IF cpc[r]["places"] = "raised" THEN <<>> ELSE result[r]["places"]]
    /\ pc' = [pc EXCEPT ![r] = "exit_with"]
    /\ deadline' = [deadline EXCEPT ![r] = 0]
    /\ UNCHANGED <<pureVars, now, CB_STATE, use_intent, coords, weather_text, response,
                   fanout_start, callVars, ghostVars>>

\* Lines 265-267: the wait timed out: places is [].
PlacesTimeout(r) ==
    /\ pc[r] = "wait_places"
    /\ ~Finished(r, "places")
    /\ now >= deadline[r]
    /\ places' = [places EXCEPT ![r] = <<>>]
    /\ pc' = [pc EXCEPT ![r] = "exit_with"]
    /\ deadline' = [deadline EXCEPT ![r] = 0]
    /\ UNCHANGED <<pureVars, now, CB_STATE, use_intent, coords, weather_text, response,
                   fanout_start, callVars, ghostVars>>

\* What leaving `with ThreadPoolExecutor(...) as ex:` (line 257) waits for:
\* __exit__ calls ex.shutdown(wait=True), which joins the worker threads.
ExecutorJoined(r) == \A res \in Resources : Finished(r, res)

\* Lines 257 and 269-277: leave the with block, compile and return.
ExitExecutor(r) ==
    /\ pc[r] = "exit_with"
    /\ ExecutorJoined(r)
    /\ response' = [response EXCEPT ![r] = CompileResponse(weather_text[r], places[r])]
    /\ pc' = [pc EXCEPT ![r] = "returned"]
    /\ fanout_start' = [fanout_start EXCEPT ![r] = 0]
    /\ UNCHANGED <<pureVars, now, CB_STATE, use_intent, coords, weather_text, places, deadline,
                   callVars, ghostVars>>

\* ------------------------------------------------------------------ time
\* The pending timers: the sleeps of the helpers and the waits on the futures.
\* The clock does not pass a pending timer before its thread has acted.
Timers ==
    {wake_at[c[1]][c[2]] : c \in {d \in Requests \X Resources : cpc[d[1]][d[2]] = "sleep"}}
    \cup {deadline[r] : r \in {q \in Requests : pc[q] \in {"wait_weather", "wait_places"}}}

\* A request has ended and none is in progress.
Quiet ==
    /\ \A r \in Requests : pc[r] \in {"idle", "returned", "raised"}
    /\ \E r \in Requests : pc[r] # "idle"

TickTargets ==
    Timers \cup {CB_STATE[x].opened_until : x \in Resources}
           \cup (IF Quiet THEN {now + IdleStep} ELSE {})

\* A thread is at a step that waits for nothing: a statement of a helper
\* between the end of an attempt and the next sleep or return, or the return
\* of a wait whose future has finished. Such steps take no time: the clock
\* advances while every thread waits for the network, a sleep, a future or
\* the next request.
Busy ==
    \E r \in Requests :
        \/ \E res \in Resources :
              cpc[r][res] \in {"entry", "fail_write", "fail_check", "fail_open", "reset_opened"}
        \/ pc[r] = "sync_weather" /\ Finished(r, "weather")
        \/ pc[r] = "sync_places" /\ Finished(r, "places")
        \/ pc[r] = "wait_weather" /\ Finished(r, "weather")
        \/ pc[r] = "wait_places" /\ Finished(r, "places")
        \/ pc[r] = "exit_with" /\ ExecutorJoined(r)

Tick ==
    /\ ~Busy
    /\ \E t \in TickTargets :
          /\ t > now
          /\ t <= MaxTime \/ t \in Timers
          /\ \A x \in Timers : t <= x
          /\ now' = t
    /\ UNCHANGED <<pureVars, CB_STATE, mainVars, callVars, ghostVars>>

Next ==
    \/ \E r \in Requests, intent \in IntentOverrides, hw \in BOOLEAN, hp \in BOOLEAN :
          Start(r, intent, hw, hp)
    \/ \E r \in Requests, g \in GeocodeOutcomes : Geocode(r, g)
    \/ \E r \in Requests : SyncWeatherReturn(r)
    \/ \E r \in Requests : SyncPlacesReturn(r)
    \/ \E r \in Requests : WeatherResult(r)
    \/ \E r \in Requests : WeatherTimeout(r)
    \/ \E r \in Requests : PlacesResult(r)
    \/ \E r \in Requests : PlacesTimeout(r)
    \/ \E r \in Requests : ExitExecutor(r)
    \/ \E r \in Requests, res \in Resources : CheckBreaker(r, res)
    \/ \E r \in Requests, res \in Resources :
          \E o \in AttemptOutcomes(res) : AttemptOutcome(r, res, o)
    \/ \E r \in Requests, res \in Resources : ResetOpened(r, res)
    \/ \E r \in Requests, res \in Resources : FailWrite(r, res)
    \/ \E r \in Requests, res \in Resources : FailCheck(r, res)
    \/ \E r \in Requests, res \in Resources : FailOpen(r, res)
    \/ \E r \in Requests, res \in Resources : Wake(r, res)
    \/ Tick

Spec == Init /\ [][Next]_vars

\* A step of the program other than the arrival of a request.
Running ==
    \/ \E r \in Requests, g \in GeocodeOutcomes : Geocode(r, g)
    \/ \E r \in Requests :
          \/ SyncWeatherReturn(r) \/ SyncPlacesReturn(r)
          \/ WeatherResult(r) \/ WeatherTimeout(r)
          \/ PlacesResult(r) \/ PlacesTimeout(r) \/ ExitExecutor(r)
    \/ \E r \in Requests, res \in Resources :
          \/ CheckBreaker(r, res) \/ ResetOpened(r, res) \/ FailWrite(r, res)
          \/ FailCheck(r, res) \/ FailOpen(r, res) \/ Wake(r, res)
          \/ \E o \in AttemptOutcomes(res) : AttemptOutcome(r, res, o)
    \/ Tick

\* The program with its scheduling: while a thread can take a step, a remote
\* request can complete or fail (requests.get and requests.post carry a
\* timeout) or the clock can reach a pending timer, one of these happens.
LiveSpec == Spec /\ WF_vars(Running)


\* ---------------------------------------- get_weather: reading a payload
\* The payload of lines 87-96, as far as the summary depends on it:
\*   temp          current.temperature_2m, in tenths of a degree, or null
\*   current_time  current.time, "" when it is missing (None)
\*   times         hourly.time
\*   probs         hourly.precipitation_probability, each in tenths of a
\*                 percent, or null

\* The hourly slots of a payload are at most MaxSlots.
MaxSlots == 2

Stamps == {"10:00", "11:00"}
CurrentTimes == Stamps \cup {"", "10:15"}
OptionalNumbers == {NoNumber, <<200>>, <<805>>}

SeqsUpTo(S, n) == UNION {[1..k -> S] : k \in 0..n}

WeatherPayloads ==
    [temp : {NoNumber, <<245>>}, current_time : CurrentTimes,
     times : SeqsUpTo(Stamps, MaxSlots), probs : SeqsUpTo(OptionalNumbers, MaxSlots)]

\* int(round(float(x))) for x >= 0 given in tenths: Python rounds a half to
\* the even neighbour.
Round(t) ==
    LET q == t \div 10
        rest == t % 10
    IN IF rest < 5 THEN q
       ELSE IF rest > 5 THEN q + 1
       ELSE IF q % 2 = 0 THEN q ELSE q + 1

\* times.index(current_time): the first slot that holds the value.
IndexOf(times, current_time) ==
    CHOOSE k \in DOMAIN times :
        /\ times[k] = current_time
        /\ \A j \in DOMAIN times : times[j] = current_time => k <= j

\* Line 99: `times.index(current_time) if current_time in times else 0`.
\* Slots are numbered from 1 here, so the code's slot 0 is slot 1.
SlotIndex(times, current_time) ==
    IF \E k \in DOMAIN times : times[k] = current_time
    THEN IndexOf(times, current_time) ELSE 1

\* Lines 93-103: prob, the probability of the slot looked up, or null.
SlotProb(d) ==
    IF d.current_time # "" /\ Len(d.times) = Len(d.probs) /\ Len(d.times) > 0
    THEN LET idx == SlotIndex(d.times, d.current_time)
         IN IF idx \in DOMAIN d.probs THEN d.probs[idx] ELSE NoNumber
    ELSE NoNumber

\* Lines 105-116: None when there is no temperature, else prob_str.
ProbStr(d) ==
    IF d.temp = NoNumber THEN None
    ELSE LET prob == SlotProb(d)
         IN IF prob = NoNumber THEN "N/A" ELSE ToString(Round(prob[1])) \o "%"

\* get_weather reads one payload.
ReadPayload ==
    /\ prob_str = "unset"
    /\ prob_str' = ProbStr(data)
    /\ UNCHANGED <<data, user_input, parsed_intent, now, CB_STATE, mainVars, callVars, ghostVars>>

WeatherInit ==
    /\ InitProgram
    /\ data \in WeatherPayloads
    /\ prob_str = "unset"
    /\ user_input = <<>>
    /\ parsed_intent = "unset"

WeatherNext == ReadPayload

WeatherSpec == WeatherInit /\ [][WeatherNext]_vars

\* ------------------------------------- parse_user_query: the intent
\* A text is the sequence of its characters.

\* Line 195: weather_keywords.
weather_keywords ==
    {<<"w", "e", "a", "t", "h", "e", "r">>,
     <<"f", "o", "r", "e", "c", "a", "s", "t">>,
     <<"t", "e", "m", "p", "e", "r", "a", "t", "u", "r", "e">>,
     <<"r", "a", "i", "n">>,
     <<"u", "m", "b", "r", "e", "l", "l", "a">>}

\* Line 196: places_keywords.
places_keywords ==
    {<<"p", "l", "a", "c", "e", "s">>,
     <<"a", "t", "t", "r", "a", "c", "t", "i", "o", "n", "s">>,
     <<"s", "i", "g", "h", "t", "s">>,
     <<"t", "h", "i", "n", "g", "s", " ", "t", "o", " ", "d", "o">>,
     <<"p", "o", "i">>,
     <<"t", "o", "u", "r", "i", "s", "t">>}

\* The texts given to parse_user_query are made of at most MaxWords of Words.
MaxWords == 3

Words ==
    {<<"r", "a", "i", "n">>,
     <<"W", "e", "a", "t", "h", "e", "r">>,
     <<"p", "o", "i">>,
     <<"s", "i", "g", "h", "t", "s">>,
     <<"t", "h", "i", "n", "g", "s">>,
     <<"t", "o", " ", "d", "o">>,
     <<" ">>,
     <<"!">>,
     <<"t">>,
     <<"n", "t">>}

RECURSIVE Flatten(_)
Flatten(ws) == IF ws = <<>> THEN <<>> ELSE Head(ws) \o Flatten(Tail(ws))

Texts == {Flatten(ws) : ws \in SeqsUpTo(Words, MaxWords)}

LowerCase == <<"a", "b", "c", "d", "e", "f", "g", "h", "i", "j", "k", "l", "m", "n", "o", "p", "q", "r", "s", "t", "u", "v", "w", "x", "y", "z">>
UpperCase == <<"A", "B", "C", "D", "E", "F", "G", "H", "I", "J", "K", "L", "M", "N", "O", "P", "Q", "R", "S", "T", "U", "V", "W", "X", "Y", "Z">>

\* str.strip(), line 191: drop the leading and the trailing whitespace.
RECURSIVE Strip(_)
Strip(text) ==
    IF text # <<>> /\ Head(text) = " " THEN Strip(Tail(text))
    ELSE IF text # <<>> /\ text[Len(text)] = " " THEN Strip(SubSeq(text, 1, Len(text) - 1))
    ELSE text

\* re.sub(r"[^A-Za-z\s\-]", " ", ...), line 193, on one character.
Sub(c) ==
    IF \/ \E k \in DOMAIN LowerCase : c = LowerCase[k] \/ c = UpperCase[k]
       \/ c \in {" ", "-"}
    THEN c ELSE " "

\* str.lower(), line 193, on one character.
Lower(c) ==
    IF \E k \in DOMAIN UpperCase : c = UpperCase[k]
    THEN LowerCase[CHOOSE k \in DOMAIN UpperCase : c = UpperCase[k]]
    ELSE c

\* Lines 191-193: norm.
Normalize(text) == [k \in DOMAIN Strip(text) |-> Lower(Sub(Strip(text)[k]))]

\* `k in norm` for strings: k is a substring of norm.
In(k, norm) ==
    \E at \in 0..(Len(norm) - Len(k)) : SubSeq(norm, at + 1, at + Len(k)) = k

\* Lines 198-199.
HasWeather(norm) == \E k \in weather_keywords : In(k, norm)
HasPlaces(norm) == \E k \in places_keywords : In(k, norm)

\* Lines 191-206: the intent parse_user_query returns.
parse_user_query(text) ==
    ParseIntent(HasWeather(Normalize(text)), HasPlaces(Normalize(text)))

ParseQuery ==
    /\ parsed_intent = "unset"
    /\ parsed_intent' = parse_user_query(user_input)
    /\ UNCHANGED <<data, prob_str, user_input, now, CB_STATE, mainVars, callVars, ghostVars>>

ParseInit ==
    /\ InitProgram
    /\ data = [temp |-> NoNumber, current_time |-> "", times |-> <<>>, probs |-> <<>>]
    /\ prob_str = "unset"
    /\ user_input \in Texts
    /\ parsed_intent = "unset"

ParseNext == ParseQuery

ParseSpec == ParseInit /\ [][ParseNext]_vars

\* ================================================================= claims

\* ----------------------------------------------------------------- C1
\* A state in which no thread is inside the breaker update of a helper on res.
NoUpdateInProgress(res) ==
    \A r \in Requests : cpc[r][res] \notin {"fail_write", "fail_check", "fail_open", "reset_opened"}

\* C1: once 3 or more consecutive failed attempts have been recorded on a
\* resource, the entry check of a call to it short-circuits (no attempt, the
\* absent result) exactly while less than 30 seconds have passed since the
\* last recorded failure, and lets the call attempt from 30 seconds on.
C1_ShortCircuitForThirtySeconds ==
    \A res \in Resources :
        (NoUpdateInProgress(res) /\ recorded[res] >= 3) =>
            (now < CB_STATE[res].opened_until <=> now < last_failure_at[res] + 300)

\* ----------------------------------------------------------------- C2
\* An attempt of request r on res starts in this step: the loop is entered
\* after the entry check, or a backoff sleep ends.
AttemptStarts(r, res) == cpc[r][res] # "attempt" /\ cpc'[r][res] = "attempt"

\* C2 as stated: every attempt, the first one and each retry, starts in a
\* state where the breaker of its resource is not Open (openUntil <= now).
C2_NoAttemptWhileOpen ==
    [][\A r \in Requests, res \in Resources :
          AttemptStarts(r, res) => CB_STATE[res].opened_until <= now]_vars

\* C2 as amended: the breaker gates a call at its entry check only. A call
\* whose entry check finds the breaker Open (openUntil > now) makes no attempt
\* and returns the absent result, leaving the breaker as it is; a call enters
\* its first attempt only from an entry check that found openUntil <= now.
C2_EntryCheckGatesCall ==
    [][\A r \in Requests, res \in Resources :
          (cpc[r][res] = "entry" /\ cpc'[r][res] # "entry") =>
              IF now < CB_STATE[res].opened_until
              THEN /\ cpc'[r][res] = "done"
                   /\ i'[r][res] = Unbound
                   /\ result'[r][res] = Absent(res)
                   /\ CB_STATE' = CB_STATE
              ELSE /\ cpc'[r][res] = "attempt"
                   /\ i'[r][res] = 0]_vars

\* A call was short-circuited by a breaker that three failures of the other
\* request's call opened, and that is still open.
C2_Witness ==
    \E r \in Requests, q \in Requests, res \in Resources :
        /\ cpc[r][res] = "done" /\ i[r][res] = Unbound
        /\ cpc[q][res] = "done" /\ i[q][res] = 2
        /\ CB_STATE[res].failures = 3
        /\ now < CB_STATE[res].opened_until

\* ----------------------------------------------------------------- C3
\* C3: breaker updates are atomic. With no update in progress, the count is
\* the number of failed attempts recorded since the last success, and 3 or
\* more of them leave openUntil at the last failure plus 30 seconds.
C3_AtomicBreakerUpdates ==
    \A res \in Resources :
        NoUpdateInProgress(res) =>
            /\ CB_STATE[res].failures = recorded[res]
            /\ recorded[res] >= 3 => CB_STATE[res].opened_until = last_failure_at[res] + 300


\* ----------------------------------------------------------------- C4
\* C4: once the waits on both futures have ended, the response is returned
\* without waiting for a helper that is still running.
C4_ResponseNotBlocked ==
    \A r \in Requests : pc[r] = "exit_with" => ENABLED ExitExecutor(r)

\* ----------------------------------------------------------------- C5
\* Request r took the fan-out branch and has returned.
FanOutReturned(r) ==
    pc[r] = "returned" /\ coords[r] = "ok" /\ use_intent[r] \notin {"weather", "places"}

\* C5: in a fan-out, a weather result available later than 15 seconds after
\* the fan-out started, and a places result available later than 20 seconds
\* after it started, is absent from the aggregate.
C5_DeadlinesFromFanOutStart ==
    \A r \in Requests :
        FanOutReturned(r) =>
            /\ late[r]["weather"] => weather_text[r] = None
            /\ late[r]["places"] => places[r] = <<>>

\* ----------------------------------------------------------------- C6
\* In the fan-out of r, get_weather had not finished 15 seconds after the
\* start, and get_tourist_places returned a non-empty list within 20 seconds.
WeatherHungPlacesInTime(r) ==
    /\ FanOutReturned(r)
    /\ late[r]["weather"]
    /\ cpc[r]["places"] = "done" /\ result[r]["places"] # <<>> /\ ~late[r]["places"]

\* C6: then the response is the places section alone: it has no weather
\* section and is not the apology.
C6_PlacesSurviveWeatherHang ==
    \A r \in Requests :
        WeatherHungPlacesInTime(r) => response[r] = <<"Top attractions near">>

C6_Witness ==
    \E r \in Requests :
        /\ WeatherHungPlacesInTime(r)
        /\ cpc[r]["weather"] = "done" /\ result[r]["weather"] # None
        /\ response[r] = <<"Top attractions near">>

\* ----------------------------------------------------------------- C7
\* C7: every attempt that ends without success, whatever its cause, enters
\* the failure handler, which increments the count and retries while fewer
\* than 3 attempts have been made: an attempt ends in the success path or in
\* the increment of the count, never in the end of the call.
C7_EveryFailureCounted ==
    [][\A r \in Requests, res \in Resources :
          (cpc[r][res] = "attempt" /\ cpc'[r][res] # "attempt") =>
              cpc'[r][res] \in {"reset_opened", "fail_write"}]_vars

\* ----------------------------------------------------------------- C8
\* C8: after geocoding, no exception leaves parent_tourism_agent, on the
\* synchronous and on the concurrent path.
C8_NoExceptionEscapes ==
    \A r \in Requests : ~(pc[r] = "raised" /\ coords[r] = "ok")

\* ----------------------------------------------------------------- C9
\* C9: a request without coordinates has entered no helper (so no attempt is
\* made before geocoding has completed with coordinates, and none at all when
\* it finds nothing); when geocoding finds nothing the request has returned
\* exactly the not-found message, whatever its intent; and no step of a
\* request without coordinates changes a breaker.
C9_NotFoundStopsRequest ==
    /\ [](\A r \in Requests :
            /\ coords[r] # "ok" =>
                  \A res \in Resources : cpc[r][res] = "idle" /\ i[r][res] = Unbound
            /\ coords[r] = "none" =>
                  pc[r] = "returned" /\ response[r] = <<"I don't think this place exists.">>)
    /\ [][\A r \in Requests :
            (pc'[r] # pc[r] /\ coords'[r] # "ok") => CB_STATE' = CB_STATE]_vars

\* A weather-only request got the not-found message while the other request
\* had opened the weather breaker.
C9_Witness ==
    \E r \in Requests :
        /\ pc[r] = "returned" /\ coords[r] = "none" /\ use_intent[r] = "weather"
        /\ response[r] = <<"I don't think this place exists.">>
        /\ CB_STATE["weather"].failures = 3 /\ CB_STATE["weather"].opened_until > now

\* ---------------------------------------------------------------- C10
\* Every source the intent of r asks for is absent from the aggregate.
AllRequestedAbsent(r) ==
    CASE use_intent[r] = "weather" -> weather_text[r] = None
      [] use_intent[r] = "places" -> places[r] = <<>>
      [] OTHER -> weather_text[r] = None /\ places[r] = <<>>

\* C10: after successful geocoding the request returns exactly the apology if
\* and only if every requested source is absent, and otherwise a response
\* with the section of each requested source that produced a result.
C10_ApologyIffAllAbsent ==
    \A r \in Requests :
        (pc[r] \in {"returned", "raised"} /\ coords[r] = "ok") =>
            /\ response[r] = <<SORRY_MSG>> <=> AllRequestedAbsent(r)
            /\ ~AllRequestedAbsent(r) =>
                  /\ weather_text[r] # None => \E k \in DOMAIN response[r] : response[r][k] = WEATHER_SECTION
                  /\ places[r] # <<>> => \E k \in DOMAIN response[r] : response[r][k] = PLACES_SECTION

\* ---------------------------------------------------------------- C11
\* C11: a successful attempt on a resource sets the count of that resource
\* to 0 (line 118 or 171) and then its openUntil to 0 (line 119 or 172) and
\* returns, whatever the two values were before; when no other call has
\* entered a helper of the resource, both are 0 when the call returns.
C11_SuccessResetsBreaker ==
    [][\A r \in Requests, res \in Resources :
          /\ (cpc[r][res] = "attempt" /\ cpc'[r][res] = "reset_opened") =>
                CB_STATE'[res].failures = 0
          /\ (cpc[r][res] = "reset_opened" /\ cpc'[r][res] # "reset_opened") =>
                /\ cpc'[r][res] = "done"
                /\ CB_STATE'[res].opened_until = 0
                /\ (\A q \in Requests \ {r} : cpc[q][res] = "idle") =>
                      CB_STATE'[res].failures = 0]_vars

\* The second attempt of a call succeeds after the other request's call has
\* failed three times, taking the count above 3 and opening the breaker: the
\* count is back to 0 and the breaker is about to be closed.
C11_Witness ==
    \E r \in Requests, q \in Requests, res \in Resources :
        /\ cpc[r][res] = "reset_opened" /\ i[r][res] = 1
        /\ cpc[q][res] = "done" /\ i[q][res] = 2 /\ result[q][res] = Absent(res)
        /\ recorded[res] = 0 /\ CB_STATE[res].failures = 0
        /\ now < CB_STATE[res].opened_until

\* ---------------------------------------------------------------- C12
\* The failure handler of the call of r on res ends in this step.
HandlerEnds(r, res) ==
    cpc[r][res] \in {"fail_check", "fail_open"} /\ cpc'[r][res] \notin {"fail_check", "fail_open"}

\* C12: a call makes at most 3 attempts (numbered i = 0, 1, 2) and none after
\* a success; the failure handler of attempt k = i + 1 < 3 ends in a sleep of
\* 0.7 * k seconds, attempt k + 1 starts when that sleep has ended, and the
\* handler of the third attempt ends the call with the absent result and no
\* sleep.
C12_ThreeAttemptsLinearBackoff ==
    /\ [](\A r \in Requests, res \in Resources : i[r][res] \in {Unbound, 0, 1, 2})
    /\ [][\A r \in Requests, res \in Resources :
            /\ (HandlerEnds(r, res) /\ i[r][res] < 2) =>
                  (cpc'[r][res] = "sleep" /\ wake_at'[r][res] = now + 7 * (i[r][res] + 1))
            /\ (HandlerEnds(r, res) /\ i[r][res] = 2) =>
                  (cpc'[r][res] = "done" /\ result'[r][res] = Absent(res)
                      /\ wake_at'[r][res] = wake_at[r][res])
            /\ (AttemptStarts(r, res) /\ i'[r][res] # 0) =>
                  (cpc[r][res] = "sleep" /\ now = wake_at[r][res]
                      /\ i'[r][res] = i[r][res] + 1)
            /\ cpc[r][res] = "reset_opened" => cpc'[r][res] \in {"reset_opened", "done"}
            /\ cpc[r][res] = "done" => (cpc'[r][res] = "done" /\ i'[r][res] = i[r][res])]_vars

\* A call that started at time 0 has failed three times without delay of the
\* network: it returned the absent result 0.7 + 1.4 seconds later, at the
\* time of its third failure.
C12_Witness ==
    \E r \in Requests, res \in Resources :
        /\ cpc[r][res] = "done" /\ i[r][res] = 2 /\ result[r][res] = Absent(res)
        /\ wake_at[r][res] = 0
        /\ last_failure_at[res] = 21 /\ now = 21
        /\ \A q \in Requests \ {r} : cpc[q][res] = "idle"

\* ---------------------------------------------------------------- C13
\* The wait of r on the future of res has ended by its timeout and the call
\* is still running on its worker thread.
TimedOutRunning(r, res) ==
    /\ ~Finished(r, res)
    /\ \/ res = "weather" /\ pc[r] \in {"wait_places", "exit_with"}
       \/ res = "places" /\ pc[r] = "exit_with"

WritesBreaker(r, res) ==
    /\ cpc[r][res] \in {"attempt", "fail_write", "fail_open", "reset_opened"}
    /\ cpc'[r][res] # cpc[r][res]
    /\ \A q \in Requests, x \in Resources :
          (q # r \/ x # res) => cpc'[q][x] = cpc[q][x]

\* C14: the two breakers are independent. A request with intent weather never
\* enters get_tourist_places and one with intent places never enters
\* get_weather; a step that changes the breaker of a resource is a step of a
\* call on that resource (an attempt's success or failure, never the entry
\* check), changes nothing of the other breaker, and is no step of
\* parent_tourism_agent itself (parsing, geocoding, waiting, compiling).
C14_BreakersIndependent ==
    /\ [](\A r \in Requests :
            /\ use_intent[r] = "weather" =>
                  (cpc[r]["places"] = "idle" /\ i[r]["places"] = Unbound)
            /\ use_intent[r] = "places" =>
                  (cpc[r]["weather"] = "idle" /\ i[r]["weather"] = Unbound))
    /\ [][\A res \in Resources :
            CB_STATE'[res] # CB_STATE[res] =>
                /\ \A x \in Resources \ {res} : CB_STATE'[x] = CB_STATE[x]
                /\ pc' = pc
                /\ \E r \in Requests : WritesBreaker(r, res)]_vars

\* A weather request has failed three times and opened the weather breaker
\* while a places request got its list: the places breaker is closed with
\* count 0, and a short-circuited call would find the weather breaker open.
C14_Witness ==
    \E r \in Requests, q \in Requests :
        /\ use_intent[r] = "weather" /\ pc[r] = "returned" /\ i[r]["weather"] = 2
        /\ use_intent[q] = "places" /\ pc[q] = "returned" /\ places[q] # <<>>
        /\ CB_STATE["weather"].failures = 3 /\ now < CB_STATE["weather"].opened_until
        /\ CB_STATE["places"] = [failures |-> 0, opened_until |-> 0]

\* ---------------------------------------------------------------- C15
\* C15: every call of parent_tourism_agent eventually returns (a response),
\* given that every remote attempt completes or fails and time passes.
C15_EveryCallReturns ==
    \A r \in Requests : (pc[r] # "idle") ~> (pc[r] = "returned")

\* Every call of parent_tourism_agent eventually ends: it returns, or an
\* exception leaves it.
C15_EveryCallEnds ==
    \A r \in Requests : (pc[r] # "idle") ~> (pc[r] \in {"returned", "raised"})

\* ---------------------------------------------------------------- C16
\* C16: in a successful weather attempt (one with a temperature), when the
\* current timestamp equals none of the hourly slot timestamps the reported
\* probability is "N/A"; when it equals slot k (the first such slot, of
\* hourly lists of equal length) and that slot has a value, the reported
\* probability is the rounded value of slot k.
C16_NoMatchIsUnavailable ==
    prob_str \notin {"unset", None} =>
        /\ (\A k \in DOMAIN data.times : data.times[k] # data.current_time) =>
              prob_str = "N/A"
        /\ \A k \in DOMAIN data.times :
              (/\ data.times[k] = data.current_time
               /\ \A j \in 1..(k - 1) : data.times[j] # data.current_time
               /\ data.current_time # ""
               /\ Len(data.times) = Len(data.probs)
               /\ data.probs[k] # NoNumber) =>
                    prob_str = ToString(Round(data.probs[k][1])) \o "%"

\* ---------------------------------------------------------------- C17
\* The keyword kw occurs in the text norm, at some position.
Occurs(kw, norm) ==
    \E at \in DOMAIN norm :
        \A j \in DOMAIN kw : at + j - 1 \in DOMAIN norm /\ norm[at + j - 1] = kw[j]

\* C17: the intent parse_user_query returns is decided by keyword presence in
\* the normalized text alone: weather for a weather keyword and no places
\* keyword, places for a places keyword and no weather keyword, and both for
\* keywords of both sets or of neither.
C17_IntentFromKeywords ==
    parsed_intent # "unset" =>
        LET norm == Normalize(user_input)
            w == \E kw \in weather_keywords : Occurs(kw, norm)
            p == \E kw \in places_keywords : Occurs(kw, norm)
        IN /\ (w /\ ~p) => parsed_intent = "weather"
           /\ (p /\ ~w) => parsed_intent = "places"
           /\ ((w /\ p) \/ (~w /\ ~p)) => parsed_intent = "both"

\* "Weather!poi" has a keyword of each set and is classified as both.
C17_Witness ==
    /\ user_input = <<"W", "e", "a", "t", "h", "e", "r", "!", "p", "o", "i">>
    /\ parsed_intent = "both"

\* ---------------------------------------------------------------- C18
\* C18: the breaker is updated after each failed attempt: the handler of a
\* failed attempt raises the count by exactly 1 and, when the count is then 3
\* or more, leaves openUntil at the time of the failure plus 30 seconds; so a
\* call that is alone on its resource and has recorded three failures from a
\* zero count leaves the count at 3 and the breaker open for 30 seconds.
C18_BreakerUpdatedPerAttempt ==
    /\ [](\A r \in Requests, res \in Resources :
            (/\ \A q \in Requests \ {r} : cpc[q][res] = "idle"
             /\ cpc[r][res] = "done" /\ recorded[res] = 3) =>
                /\ CB_STATE[res].failures = 3
                /\ CB_STATE[res].opened_until = last_failure_at[res] + 300)
    /\ [][\A r \in Requests, res \in Resources :
            /\ (cpc[r][res] = "fail_write" /\ cpc'[r][res] # "fail_write") =>
                  CB_STATE'[res].failures = CB_STATE[res].failures + 1
            /\ (HandlerEnds(r, res) /\ CB_STATE'[res].failures >= 3) =>
                  CB_STATE'[res].opened_until = now + 300]_vars

\* ---------------------------------------------------------------- C19
\* The call of r is the only one running on res, and the last failure
\* recorded on res is at least 30 seconds old: a cool-down has elapsed.
AfterCoolDown(r, res) ==
    /\ \A q \in Requests \ {r} : cpc[q][res] \in {"idle", "done", "raised"}
    /\ last_failure_at[res] + 300 <= now

\* C19: the count never decreases except by a successful attempt, and the
\* passing of time changes no breaker; an entry check that finds openUntil
\* elapsed lets the call attempt, with the count as it is; and after a
\* cool-down the first attempt decides: when it fails on a count of 3 or
\* more, this single failure leaves the breaker open until the time of the
\* failure plus 30 seconds, and when it succeeds the count and openUntil are 0.
C19_CoolDownKeepsCount ==
    [][\A r \in Requests, res \in Resources :
          /\ CB_STATE'[res].failures < CB_STATE[res].failures =>
                \E q \in Requests : cpc[q][res] = "attempt" /\ cpc'[q][res] = "reset_opened"
          /\ now' # now => CB_STATE' = CB_STATE
          /\ (cpc[r][res] = "entry" /\ cpc'[r][res] # "entry"
                /\ CB_STATE[res].opened_until <= now) =>
                    (cpc'[r][res] = "attempt" /\ CB_STATE' = CB_STATE)
          /\ (cpc[r][res] = "fail_write" /\ cpc'[r][res] # "fail_write"
                /\ AfterCoolDown(r, res) /\ CB_STATE[res].failures >= 3) =>
                    CB_STATE'[res].failures = CB_STATE[res].failures + 1
          /\ (HandlerEnds(r, res) /\ AfterCoolDown(r, res)
                /\ CB_STATE[res].failures >= 4) =>
                    CB_STATE'[res].opened_until = now + 300
          /\ (cpc[r][res] = "reset_opened" /\ cpc'[r][res] # "reset_opened"
                /\ AfterCoolDown(r, res)) =>
                    CB_STATE'[res] = [failures |-> 0, opened_until |-> 0]]_vars

\* A call failed three times and opened the breaker; the first attempt of the
\* next call, made when the cool-down had elapsed, has failed: the count is 4
\* and the breaker is open for 30 seconds from this failure.
C19_Witness ==
    \E r \in Requests, q \in Requests, res \in Resources :
        /\ cpc[q][res] = "done" /\ i[q][res] = 2
        /\ cpc[r][res] = "sleep" /\ i[r][res] = 0
        /\ now >= 321 /\ last_failure_at[res] = now
        /\ CB_STATE[res] = [failures |-> 4, opened_until |-> now + 300]

\* ---------------------------------------------------------------- C20
\* C20: whatever the interleaving of the requests, when no thread is inside
\* an update of the breaker of a resource, its count is not negative and its
\* openUntil is non-zero only if its count is at least 3.
C20_OpenOnlyAtThreshold ==
    \A res \in Resources :
        NoUpdateInProgress(res) =>
            /\ CB_STATE[res].failures >= 0
            /\ CB_STATE[res].opened_until # 0 => CB_STATE[res].failures >= 3

====
